---- MODULE Spec2Model ----
(***************************************************************************)
(* el-macro: the bind! macro (two revisions: src/source/bind/mod.rs and    *)
(* src/source/lib.rs), the IntoResult conversions it rests on, and the     *)
(* if_matches! macro.                                                      *)
(*                                                                         *)
(* A bind! call is modelled as the steps of its expansion and of the       *)
(* expanded code: rule selection and rewriting (compile time), evaluation  *)
(* of the source expression, into_result, the match on the Result, the     *)
(* handler call, the escape expression, the `let mut` wrapper, and the     *)
(* code that follows the statement.  Two calls with the same source,       *)
(* handler and escape but independently chosen call forms are run one      *)
(* after the other, each against its own copy of the mutex.                *)
(***************************************************************************)
EXTENDS Integers, Sequences, FiniteSets, TLC

VARIABLES rev, e, h, f, form, run, turn, im

vars == <<rev, e, h, f, form, run, turn, im>>

\* Payload bounds: success payloads 1..MaxVal, error payloads 1..MaxErr.
MaxVal == 2
MaxErr == 2

Vals == 1..MaxVal
Errs == 1..MaxErr

\* The unit value (), the Error type of the Option conversion.
Unit == 0

Calls == {1, 2}

(***************************************************************************)
(* Values                                                                  *)
(***************************************************************************)
None == [tag |-> "None"]
Some(v) == [tag |-> "Some", val |-> v]
Ok(v) == [tag |-> "Ok", val |-> v]
Err(x) == [tag |-> "Err", val |-> x]
Mutex(v) == [tag |-> "Mutex", data |-> v]

Unset == [tag |-> "unset"]
Unbound == [tag |-> "unbound"]
Binding(v, m) == [tag |-> "bound", val |-> v, mut |-> m]

Options == {None} \cup {Some(v) : v \in Vals}
Results == {Ok(v) : v \in Vals} \cup {Err(x) : x \in Errs}
Mutexes == {Mutex(v) : v \in Vals}

\* Escape expressions: the diverging ones, and a block that yields a value.
Diverging == {[kind |-> k] : k \in {"return", "break", "continue"}}
Blocks == {[kind |-> "block", val |-> v] : v \in Vals}
Diverges(x) == x.kind # "block"

(***************************************************************************)
(* IntoResult                                                              *)
(***************************************************************************)
\* Option::ok_or as used by the Option conversion.
ok_or(opt, err) == IF opt.tag = "Some" THEN Ok(opt.val) ELSE Err(err)

\* Mutant of into_result_Option: the payload of Some is lost.
into_result_Option_loses_payload(self) ==
    IF self.tag = "Some" THEN Ok(Unit) ELSE Err(Unit)

into_result_Option(self) == ok_or(self, Unit)

into_result_Result(self) == self

\* Mutex::lock as used by the &Mutex conversion: it returns once the mutex is
\* free, takes it, and yields the guard, inside a PoisonError when the mutex
\* is poisoned.  m is the mutex state, data the protected value.
lock(m, data) ==
    [mtx |-> [m EXCEPT !.owner = "self"],
     res |-> IF m.poisoned THEN Err(data) ELSE Ok(data)]

into_result_Mutex(m, data) == lock(m, data)

IsMutex(s) == s.tag = "Mutex"

into_result(s) ==
    IF s.tag \in {"Some", "None"} THEN into_result_Option(s)
    ELSE into_result_Result(s)

(***************************************************************************)
(* macro_rules! bind: rule selection and expansion                         *)
(***************************************************************************)
\* A call form: bind!([mut] n [= e], or [h,] f).
Forms == [mut : BOOLEAN, short : BOOLEAN, handler : BOOLEAN]

\* The first rule of src/source/bind/mod.rs whose pattern the call matches.
rule_mod(c) ==
    CASE ~c.handler /\ ~c.mut /\ ~c.short -> "n = e, or f"
      [] ~c.handler /\ c.mut /\ ~c.short -> "mut n = e, or f"
      [] ~c.handler /\ ~c.mut /\ c.short -> "n, or f"
      [] ~c.handler /\ c.mut /\ c.short -> "mut n, or f"
      [] c.handler /\ ~c.mut /\ ~c.short -> "n = e, or h, f"
      [] c.handler /\ c.mut /\ ~c.short -> "mut n = e, or h, f"
      [] c.handler /\ ~c.mut /\ c.short -> "n, or h, f"
      [] c.handler /\ c.mut /\ c.short -> "mut n, or h, f"

\* The first rule of src/source/lib.rs whose pattern the call matches; that
\* revision has no rule for a call without `= e`.
rule_lib(c) ==
    CASE c.short -> "no rule"
      [] ~c.handler /\ ~c.mut /\ ~c.short -> "n = e, or f"
      [] ~c.handler /\ c.mut /\ ~c.short -> "mut n = e, or f"
      [] c.handler /\ ~c.mut /\ ~c.short -> "n = e, or h, f"
      [] c.handler /\ c.mut /\ ~c.short -> "mut n = e, or h, f"

\* What a rule's right-hand side is: a nested bind! call (`call`), wrapped or
\* not in `let mut n = { ...; n };` (`wrap`), or the code that does the work
\* (`body`).
Nested(c, w) == [body |-> "bind!", call |-> c, wrap |-> w]
Body(b, c) == [body |-> b, call |-> c, wrap |-> FALSE]

\* Mutant of bind_mod: the rule for `mut n, or h, f` forgets the handler.
bind_mod_short_drops_handler(c) ==
    LET r == rule_mod(c) IN
    CASE r = "n = e, or f" -> Body("match", c)
      [] r = "mut n = e, or f" -> Nested([c EXCEPT !.mut = FALSE], TRUE)
      [] r = "n, or f" -> Nested([c EXCEPT !.short = FALSE], FALSE)
      [] r = "mut n, or f" -> Nested([c EXCEPT !.short = FALSE], FALSE)
      [] r = "n = e, or h, f" -> Body("match", c)
      [] r = "mut n = e, or h, f" -> Nested([c EXCEPT !.mut = FALSE], TRUE)
      [] r = "n, or h, f" -> Nested([c EXCEPT !.short = FALSE], FALSE)
      [] r = "mut n, or h, f" ->
            Nested([c EXCEPT !.short = FALSE, !.handler = FALSE], FALSE)

\* Mutant of bind_mod: the rule for `mut n = e, or h, f` expands to the plain
\* call without the `let mut` wrapper.
bind_mod_mut_unwrapped(c) ==
    LET r == rule_mod(c) IN
    CASE r = "n = e, or f" -> Body("match", c)
      [] r = "mut n = e, or f" -> Nested([c EXCEPT !.mut = FALSE], TRUE)
      [] r = "n, or f" -> Nested([c EXCEPT !.short = FALSE], FALSE)
      [] r = "mut n, or f" -> Nested([c EXCEPT !.short = FALSE], FALSE)
      [] r = "n = e, or h, f" -> Body("match", c)
      [] r = "mut n = e, or h, f" -> Nested([c EXCEPT !.mut = FALSE], FALSE)
      [] r = "n, or h, f" -> Nested([c EXCEPT !.short = FALSE], FALSE)
      [] r = "mut n, or h, f" -> Nested([c EXCEPT !.short = FALSE], FALSE)

\* The rules of src/source/bind/mod.rs.
bind_mod(c) ==
    LET r == rule_mod(c) IN
    CASE r = "n = e, or f" -> Body("match", c)
      [] r = "mut n = e, or f" -> Nested([c EXCEPT !.mut = FALSE], TRUE)
      [] r = "n, or f" -> Nested([c EXCEPT !.short = FALSE], FALSE)
      [] r = "mut n, or f" -> Nested([c EXCEPT !.short = FALSE], FALSE)
      [] r = "n = e, or h, f" -> Body("match", c)
      [] r = "mut n = e, or h, f" -> Nested([c EXCEPT !.mut = FALSE], TRUE)
      [] r = "n, or h, f" -> Nested([c EXCEPT !.short = FALSE], FALSE)
      [] r = "mut n, or h, f" -> Nested([c EXCEPT !.short = FALSE], FALSE)

\* The rules of src/source/lib.rs.
bind_lib(c) ==
    LET r == rule_lib(c) IN
    CASE r = "n = e, or f" -> Body("let else", c)
      [] r = "mut n = e, or f" -> Nested([c EXCEPT !.mut = FALSE], TRUE)
      [] r = "n = e, or h, f" -> Body("match", c)
      [] r = "mut n = e, or h, f" -> Nested([c EXCEPT !.mut = FALSE], TRUE)
      [] r = "no rule" -> Body("no rule", c)

bind(r, c) == IF r = "mod" THEN bind_mod(c) ELSE bind_lib(c)

\* The call forms a revision has a rule for.
FormsOf(r) == {c \in Forms : r = "mod" \/ rule_lib(c) # "no rule"}

\* The sources a revision has a conversion for.
SourcesOf(r) == Options \cup Results \cup (IF r = "mod" THEN Mutexes ELSE {})

\* The else block of `let ... else` must diverge, or the compiler rejects it.
Compiles(body, esc) == body = "match" \/ (body = "let else" /\ Diverges(esc))

(***************************************************************************)
(* One bind! call                                                          *)
(***************************************************************************)
Set(v) == [tag |-> "set", val |-> v]

FreshMutex == [owner |-> "none", poisoned |-> FALSE]

\* The state of a call before its expansion: nothing evaluated, nothing bound.
NewRun(c, m) ==
    [pc |-> "expand", cur |-> c, wrap |-> FALSE, body |-> "bind!",
     srcv |-> Unset, res |-> Unset, trace |-> <<>>, harg |-> Unset,
     bound |-> Unset, n |-> Unbound, exit |-> "none",
     mtx |-> m, guard |-> "none", locks |-> 0]

\* Mutant of drop: dropping a guard leaves the mutex locked.
drop_keeps_lock(r, p) ==
    IF r.guard = p THEN [r EXCEPT !.guard = "dropped"] ELSE r

\* Dropping the value held at place p: a MutexGuard unlocks its mutex when it
\* is dropped.
drop(r, p) ==
    IF r.guard = p THEN [r EXCEPT !.guard = "dropped", !.mtx.owner = "none"]
    ELSE r

\* Moving the value held at place p to place q.
move(r, p, q) == IF r.guard = p THEN [r EXCEPT !.guard = q] ELSE r

\* Mutant of expand: a rule that rewrites the call to a nested call also
\* evaluates the source expression on the way.
expand_evaluates_source(r, rv, esc) ==
    LET x == bind(rv, r.cur) IN
    IF x.body = "bind!"
    THEN [r EXCEPT !.cur = x.call, !.wrap = @ \/ x.wrap,
                   !.trace = Append(@, "e")]
    ELSE IF Compiles(x.body, esc)
         THEN [r EXCEPT !.pc = "source", !.body = x.body]
         ELSE [r EXCEPT !.pc = "rejected"]

\* One rewriting step of the macro call r.cur; when the rule's right-hand
\* side is code, the compiler accepts it or rejects the program.
expand(r, rv, esc) ==
    LET x == bind(rv, r.cur) IN
    IF x.body = "bind!"
    THEN [r EXCEPT !.cur = x.call, !.wrap = @ \/ x.wrap]
    ELSE IF Compiles(x.body, esc)
         THEN [r EXCEPT !.pc = "source", !.body = x.body]
         ELSE [r EXCEPT !.pc = "rejected"]

\* `$e`: the source expression is evaluated.
eval_source(r, src) ==
    [r EXCEPT !.pc = "convert", !.srcv = src, !.trace = Append(@, "e")]

\* `.into_result()` on an Option or a Result.
convert(r) ==
    [r EXCEPT !.pc = "match", !.res = into_result(r.srcv),
              !.trace = Append(@, "into_result")]

\* `.into_result()` on a &Mutex: the Result, guard inside, is the temporary
\* the match inspects.
convert_mutex(r) ==
    LET x == into_result_Mutex(r.mtx, r.srcv.data) IN
    [r EXCEPT !.pc = "match", !.res = x.res, !.mtx = x.mtx,
              !.guard = "temp", !.locks = @ + 1,
              !.trace = Append(@, "into_result")]
\* Mutant of match_result: the arms are swapped, so Ok takes the failure path.
match_result_swapped(r) ==
    IF r.res.tag = "Err"
    THEN [move(r, "temp", "n") EXCEPT
              !.n = Binding(r.res.val, FALSE), !.bound = Set(r.res.val),
              !.pc = IF r.wrap THEN "wrap" ELSE "after"]
    ELSE IF r.cur.handler
         THEN [move(r, "temp", "err") EXCEPT !.pc = "call h"]
         ELSE [r EXCEPT !.pc = "eval f"]

\* The match on the Result (the `let ... else` of lib.rs likewise):
\* Ok binds n to the payload; Err(err) moves the error out of the temporary,
\* Err(_) leaves it there.
match_result(r) ==
    IF r.res.tag = "Ok"
    THEN [move(r, "temp", "n") EXCEPT
              !.n = Binding(r.res.val, FALSE), !.bound = Set(r.res.val),
              !.pc = IF r.wrap THEN "wrap" ELSE "after"]
    ELSE IF r.cur.handler
         THEN [move(r, "temp", "err") EXCEPT !.pc = "call h"]
         ELSE [r EXCEPT !.pc = "eval f"]

\* `$h(err);`: the handler is called with the error, which moves into it.
call_handler(r) ==
    [move(r, "err", "h") EXCEPT
         !.pc = "in h", !.harg = Set(r.res.val), !.trace = Append(@, "h")]

\* Mutant of handler_return: a handler that ran ends the statement, and the
\* escape expression is skipped.
handler_return_skips_escape(r, hd) ==
    [(IF hd = "drop" THEN drop(r, "h") ELSE move(r, "h", "kept")) EXCEPT
         !.pc = "after", !.trace = Append(@, "h returns")]

\* The handler returns; its result is discarded.  A handler that did not
\* store its argument elsewhere drops it by then.
handler_return(r, hd) ==
    [(IF hd = "drop" THEN drop(r, "h") ELSE move(r, "h", "kept")) EXCEPT
         !.pc = "eval f", !.trace = Append(@, "h returns")]

\* `$f` starts to be evaluated.
eval_escape(r) == [r EXCEPT !.pc = "in f", !.trace = Append(@, "f")]

\* Mutant of escape_end: the value of a block is thrown away and the
\* statement is left as by a diverging escape.
escape_end_always_leaves(r, esc) ==
    [drop(r, "temp") EXCEPT !.pc = "exited", !.exit = esc.kind]

\* `$f` has been evaluated: it left the enclosing function, loop or block, or
\* it yielded the value the `let` binds.  The temporary of the match is
\* dropped as the statement ends.
escape_end(r, esc) ==
    IF Diverges(esc)
    THEN [drop(r, "temp") EXCEPT !.pc = "exited", !.exit = esc.kind]
    ELSE [drop(r, "temp") EXCEPT
              !.n = Binding(esc.val, FALSE), !.bound = Set(esc.val),
              !.pc = IF r.wrap THEN "wrap" ELSE "after"]

\* `let mut $n = { ...; $n };`
wrap_mut(r) == [r EXCEPT !.n = Binding(r.n.val, TRUE), !.pc = "after"]

Terminal(r) == r.pc \in {"done", "exited", "rejected"}

Expand(i) ==
    /\ turn = i /\ run[i].pc = "expand"
    /\ run' = [run EXCEPT ![i] = expand(@, rev, f)]
    /\ UNCHANGED <<rev, e, h, f, form, turn, im>>

EvalSource(i) ==
    /\ turn = i /\ run[i].pc = "source"
    /\ run' = [run EXCEPT ![i] = eval_source(@, e)]
    /\ UNCHANGED <<rev, e, h, f, form, turn, im>>

Convert(i) ==
    /\ turn = i /\ run[i].pc = "convert" /\ ~IsMutex(run[i].srcv)
    /\ run' = [run EXCEPT ![i] = convert(@)]
    /\ UNCHANGED <<rev, e, h, f, form, turn, im>>

\* lock() blocks while another thread holds the mutex.
ConvertMutex(i) ==
    /\ turn = i /\ run[i].pc = "convert" /\ IsMutex(run[i].srcv)
    /\ run[i].mtx.owner = "none"
    /\ run' = [run EXCEPT ![i] = convert_mutex(@)]
    /\ UNCHANGED <<rev, e, h, f, form, turn, im>>

Match(i) ==
    /\ turn = i /\ run[i].pc = "match"
    /\ run' = [run EXCEPT ![i] = match_result(@)]
    /\ UNCHANGED <<rev, e, h, f, form, turn, im>>

CallHandler(i) ==
    /\ turn = i /\ run[i].pc = "call h"
    /\ run' = [run EXCEPT ![i] = call_handler(@)]
    /\ UNCHANGED <<rev, e, h, f, form, turn, im>>

HandlerReturn(i) ==
    /\ turn = i /\ run[i].pc = "in h"
    /\ run' = [run EXCEPT ![i] = handler_return(@, h)]
    /\ UNCHANGED <<rev, e, h, f, form, turn, im>>

EvalEscape(i) ==
    /\ turn = i /\ run[i].pc = "eval f"
    /\ run' = [run EXCEPT ![i] = eval_escape(@)]
    /\ UNCHANGED <<rev, e, h, f, form, turn, im>>

EscapeEnd(i) ==
    /\ turn = i /\ run[i].pc = "in f"
    /\ run' = [run EXCEPT ![i] = escape_end(@, f)]
    /\ UNCHANGED <<rev, e, h, f, form, turn, im>>

WrapMut(i) ==
    /\ turn = i /\ run[i].pc = "wrap"
    /\ run' = [run EXCEPT ![i] = wrap_mut(@)]
    /\ UNCHANGED <<rev, e, h, f, form, turn, im>>

\* The code after the statement assigns to n (`x += 3;`, `*x -= 3;`), which
\* the compiler accepts for a `mut` binding only.
Reassign(i) ==
    /\ turn = i /\ run[i].pc = "after" /\ run[i].n.mut
    /\ \E v \in Vals \ {run[i].n.val} :
           run' = [run EXCEPT ![i].n.val = v, ![i].pc = "reassigned"]
    /\ UNCHANGED <<rev, e, h, f, form, turn, im>>

\* The scope of n ends: n is dropped.
ScopeExit(i) ==
    /\ turn = i /\ run[i].pc \in {"after", "reassigned"}
    /\ run' = [run EXCEPT ![i] = [drop(@, "n") EXCEPT !.pc = "done"]]
    /\ UNCHANGED <<rev, e, h, f, form, turn, im>>

\* Another thread sharing the mutex takes it, releases it, or panics while
\* holding it, which poisons it.
OtherLock(i) ==
    /\ turn = i /\ IsMutex(e) /\ ~Terminal(run[i])
    /\ run[i].mtx.owner = "none"
    /\ run' = [run EXCEPT ![i].mtx.owner = "other"]
    /\ UNCHANGED <<rev, e, h, f, form, turn, im>>

OtherUnlock(i) ==
    /\ turn = i /\ IsMutex(e) /\ run[i].mtx.owner = "other"
    /\ run' = [run EXCEPT ![i].mtx.owner = "none"]
    /\ UNCHANGED <<rev, e, h, f, form, turn, im>>

OtherPanic(i) ==
    /\ turn = i /\ IsMutex(e) /\ run[i].mtx.owner = "other"
    /\ run' = [run EXCEPT ![i].mtx = [owner |-> "none", poisoned |-> TRUE]]
    /\ UNCHANGED <<rev, e, h, f, form, turn, im>>

\* The first call is over; the second one starts.
NextCall ==
    /\ turn = 1 /\ Terminal(run[1])
    /\ turn' = 2
    /\ UNCHANGED <<rev, e, h, f, form, run, im>>

ImIdle == [pc |-> "idle"]

Init ==
    /\ rev \in {"mod", "lib"}
    /\ e \in SourcesOf(rev)
    /\ h \in (IF IsMutex(e) THEN {"drop", "keep"} ELSE {"drop"})
    /\ f \in Diverging \cup Blocks
    /\ form \in [Calls -> FormsOf(rev)]
    /\ \E m \in [owner : {"none", "other"}, poisoned : BOOLEAN] :
           /\ IsMutex(e) \/ m = FreshMutex
           /\ run = [i \in Calls |-> NewRun(form[i], m)]
    /\ turn = 1
    /\ im = ImIdle

Next ==
    \/ NextCall
    \/ \E i \in Calls :
           \/ Expand(i) \/ EvalSource(i) \/ Convert(i) \/ ConvertMutex(i)
           \/ Match(i) \/ CallHandler(i) \/ HandlerReturn(i)
           \/ EvalEscape(i) \/ EscapeEnd(i) \/ WrapMut(i)
           \/ Reassign(i) \/ ScopeExit(i)
           \/ OtherLock(i) \/ OtherUnlock(i) \/ OtherPanic(i)

Spec == Init /\ [][Next]_vars

(***************************************************************************)
(* if_matches!(e, p [if c] => m)                                           *)
(***************************************************************************)
\* Scrutinees: pairs of Options, as in the documented examples.
Nums == 0..MaxVal
Pairs == [a : {None} \cup {Some(v) : v \in Nums},
          b : {None} \cup {Some(v) : v \in Nums}]

\* Patterns (p1, p2) over such a pair; Some(x) and Some(y) bind.
SubPatterns == {"Some(bind)", "Some(_)", "None", "_"}
Patterns == [a : SubPatterns, b : SubPatterns]

Guards == {"absent", "y != 0"}
Mappings == {"avg(x, y)", "x / y", "a"}

Binds(p) == p = "Some(bind)"

\* The guard and the mapping may only name variables the pattern binds.
WellFormed(p, c, m) ==
    /\ c = "y != 0" => Binds(p.b)
    /\ m \in {"avg(x, y)", "x / y"} => Binds(p.a) /\ Binds(p.b)

matches_sub(p, v) ==
    CASE p = "_" -> TRUE
      [] p = "None" -> v.tag = "None"
      [] p \in {"Some(bind)", "Some(_)"} -> v.tag = "Some"

matches(p, v) == matches_sub(p.a, v.a) /\ matches_sub(p.b, v.b)

eval_guard(c, v) == c = "y != 0" => v.b.val # 0

\* Integer division panics on a zero divisor.
Panics(m, v) == m = "x / y" /\ v.b.val = 0

eval_mapping(m, v) ==
    CASE m = "avg(x, y)" -> (v.a.val + v.b.val) \div 2
      [] m = "x / y" -> v.a.val \div v.b.val
      [] m = "a" -> v.a

NewMatch(v, p, c, m) ==
    [pc |-> "start", e |-> v, p |-> p, c |-> c, m |-> m,
     scrut |-> Unset, matched |-> FALSE, evals |-> <<>>, result |-> Unset]

\* `match $e`: the scrutinee is evaluated.
im_scrutinee(s) ==
    [s EXCEPT !.pc = "pattern", !.scrut = s.e, !.evals = Append(@, "e")]

\* Mutant of im_pattern: the guard is looked at before the pattern has been
\* found to match.
im_pattern_guard_first(s) ==
    IF s.c # "absent"
    THEN [s EXCEPT !.matched = matches(s.p, s.scrut), !.pc = "guard"]
    ELSE IF matches(s.p, s.scrut)
         THEN [s EXCEPT !.matched = TRUE, !.pc = "mapping"]
         ELSE [s EXCEPT !.pc = "done", !.result = None]

\* `$p`: the first arm's pattern is tried; when it fails `_ => None` is taken.
im_pattern(s) ==
    IF matches(s.p, s.scrut)
    THEN [s EXCEPT !.matched = TRUE,
                   !.pc = IF s.c = "absent" THEN "mapping" ELSE "guard"]
    ELSE [s EXCEPT !.pc = "done", !.result = None]

\* Mutant of im_guard: the guard's value is ignored.
im_guard_ignored(s) ==
    [s EXCEPT !.pc = "mapping", !.evals = Append(@, "c")]

\* `if $c`: the guard is evaluated with the bindings in scope; when it is
\* false `_ => None` is taken.
im_guard(s) ==
    IF eval_guard(s.c, s.scrut)
    THEN [s EXCEPT !.pc = "mapping", !.evals = Append(@, "c")]
    ELSE [s EXCEPT !.pc = "done", !.result = None,
                   !.evals = Append(@, "c")]

\* `Some((|| $m)())`: the closure is called and its value wrapped.
im_mapping(s) ==
    IF Panics(s.m, s.scrut)
    THEN [s EXCEPT !.pc = "panicked", !.evals = Append(@, "m")]
    ELSE [s EXCEPT !.pc = "done", !.evals = Append(@, "m"),
                   !.result = Some(eval_mapping(s.m, s.scrut))]

ImScrutinee ==
    /\ im.pc = "start"
    /\ im' = im_scrutinee(im)
    /\ UNCHANGED <<rev, e, h, f, form, run, turn>>

ImPattern ==
    /\ im.pc = "pattern"
    /\ im' = im_pattern(im)
    /\ UNCHANGED <<rev, e, h, f, form, run, turn>>

ImGuard ==
    /\ im.pc = "guard"
    /\ im' = im_guard(im)
    /\ UNCHANGED <<rev, e, h, f, form, run, turn>>

ImMapping ==
    /\ im.pc = "mapping"
    /\ im' = im_mapping(im)
    /\ UNCHANGED <<rev, e, h, f, form, run, turn>>

NoForm == [mut |-> FALSE, short |-> FALSE, handler |-> FALSE]

InitMatch ==
    /\ rev = "mod" /\ e = None /\ h = "drop" /\ f = [kind |-> "return"]
    /\ form = [i \in Calls |-> NoForm]
    /\ run = [i \in Calls |-> NewRun(NoForm, FreshMutex)]
    /\ turn = 0
    /\ \E v \in Pairs, p \in Patterns, c \in Guards, m \in Mappings :
           /\ WellFormed(p, c, m)
           /\ im = NewMatch(v, p, c, m)

NextMatch == ImScrutinee \/ ImPattern \/ ImGuard \/ ImMapping

SpecMatch == InitMatch /\ [][NextMatch]_vars

(***************************************************************************)
(* Properties                                                              *)
(***************************************************************************)
Count(seq, x) == Cardinality({k \in DOMAIN seq : seq[k] = x})

IsPrefix(s, t) == Len(s) <= Len(t) /\ SubSeq(t, 1, Len(s)) = s

Succeeded(r) == r.res.tag = "Ok"
Failed(r) == r.res.tag = "Err"

\* The statement is over and the code after it runs or has run.
Continued(r) == r.pc \in {"after", "reassigned", "done"}

\* The binding of the statement is made.
BoundBy(r) == r.pc \in {"wrap", "after", "reassigned", "done"}

AllForms == [mut |-> TRUE, short |-> TRUE, handler |-> TRUE]

\* C1: when the source converts to Ok(v), whatever the call form, the new
\* variable is bound to exactly v (the payload of Some(v) or Ok(v)), neither
\* the handler nor the escape expression is evaluated, and control goes on to
\* the code after the statement.
C1_SuccessBindsPayload ==
    \A i \in Calls :
        LET r == run[i] IN
        Succeeded(r) =>
            /\ r.pc \in {"match", "wrap", "after", "reassigned", "done"}
            /\ Count(r.trace, "h") = 0 /\ Count(r.trace, "f") = 0
            /\ r.harg = Unset /\ r.exit = "none"
            /\ e.tag \in {"Some", "Ok"} => r.res.val = e.val
            /\ BoundBy(r) => r.bound = Set(r.res.val)
            /\ r.pc \in {"wrap", "after"} => r.n.val = r.res.val

\* A `mut n, or h, f` call on Some(2) has bound n, mutably, to 2 and runs on.
C1_Witness ==
    \E i \in Calls :
        /\ form[i] = AllForms /\ e = Some(2)
        /\ run[i].pc = "after" /\ run[i].n = Binding(2, TRUE)
        /\ run[i].trace = <<"e", "into_result">>

\* What a failing call evaluates, in order.
FailureTrace(c) ==
    <<"e", "into_result">>
        \o (IF c.handler THEN <<"h", "h returns">> ELSE <<>>)
        \o <<"f">>

\* C2: when the source converts to Err(x), whatever the call form, the
\* handler (if the call has one) is called exactly once with exactly x and
\* returns, then the escape expression is evaluated exactly once; the escape
\* is never evaluated before the handler, never skipped after it, and the
\* code after the statement never runs unless the escape was evaluated.
C2_FailureHandlerThenEscape ==
    \A i \in Calls :
        LET r == run[i] IN
        Failed(r) =>
            /\ IsPrefix(r.trace, FailureTrace(form[i]))
            /\ r.pc \in {"in f", "exited", "wrap", "after", "reassigned", "done"}
                   => r.trace = FailureTrace(form[i])
            /\ Count(r.trace, "h") > 0 => r.harg = Set(r.res.val)
            /\ Count(r.trace, "h") = 0 => r.harg = Unset
            /\ e.tag = "Err" => r.res.val = e.val
            /\ e.tag = "None" => r.res.val = Unit

\* A `mut n, or h, f` call on Err(2) has called the handler with 2 and then
\* left through the escape expression.
C2_Witness ==
    \E i \in Calls :
        /\ form[i] = AllForms /\ e = Err(2)
        /\ run[i].pc = "exited" /\ run[i].harg = Set(2)
        /\ run[i].trace = <<"e", "into_result", "h", "h returns", "f">>

\* A source that converts to Err, as can be told before the program runs.
FailingSource(s) == s.tag \in {"None", "Err"}

\* The no-handler rules of lib.rs expand to `let Ok(n) = ... else { f };`.
LetElseForm(r, c) == r = "lib" /\ ~c.handler

\* C3 as stated: when the source converts to Err and the escape expression
\* is a block that yields a value, the call binds the new variable to that
\* value and goes on, in every call form and in both revisions.
C3_AsStated ==
    \A i \in Calls :
        (f.kind = "block" /\ FailingSource(e)) =>
            /\ run[i].pc # "rejected"
            /\ BoundBy(run[i]) => run[i].bound = Set(f.val)

\* C3 as amended: with a value block as the escape expression, every call
\* form of bind/mod.rs and the handler forms of lib.rs bind the new variable
\* to the block's value on failure and go on; the forms of lib.rs without a
\* handler (a `let ... else`) are rejected by the compiler and never run.
C3_BlockValueBinds ==
    \A i \in Calls :
        LET r == run[i] IN
        f.kind = "block" =>
            /\ LetElseForm(rev, form[i]) => r.pc \in {"expand", "rejected"}
            /\ ~LetElseForm(rev, form[i]) =>
                   /\ r.pc # "rejected"
                   /\ Failed(r) => r.pc # "exited" /\ r.exit = "none"
                   /\ Failed(r) /\ BoundBy(r) => r.bound = Set(f.val)
                   /\ Failed(r) /\ r.pc \in {"wrap", "after"}
                          => r.n.val = f.val

\* In lib.rs, with None and the block { 2 }: the `mut` call with a handler has
\* bound n to 2, the `mut` call without one was rejected.
C3_Witness ==
    \E i, j \in Calls :
        /\ rev = "lib" /\ e = None /\ f = [kind |-> "block", val |-> 2]
        /\ form[i] = [mut |-> TRUE, short |-> FALSE, handler |-> TRUE]
        /\ run[i].pc = "after" /\ run[i].n = Binding(2, TRUE)
        /\ form[j] = [mut |-> TRUE, short |-> FALSE, handler |-> FALSE]
        /\ run[j].pc = "rejected"

\* What a finished call shows: where it ended, what it evaluated and in what
\* order, the conversion's outcome, the handler's argument, the value bound,
\* and where the guard of a mutex source went.
Observed(r) ==
    [pc |-> r.pc, exit |-> r.exit, trace |-> r.trace, res |-> r.res,
     harg |-> r.harg, bound |-> r.bound, guard |-> r.guard,
     locks |-> r.locks]

BothOver == turn = 2 /\ Terminal(run[1]) /\ Terminal(run[2])

\* Both calls met the mutex in the same condition.  (Whether another thread
\* poisoned it meanwhile is not in the hands of the call.)
SameOutcome == IsMutex(e) => run[1].res = run[2].res

\* C4: a call without `= e` (the variable n is the source) and the call with
\* the same variable given as the source, alike in `mut` and in the handler,
\* take the same branch, bind the same value, pass the handler the same
\* argument and evaluate source, handler and escape the same number of times.
C4_ShorthandSameAsExplicit ==
    (/\ BothOver /\ SameOutcome
     /\ form[1].short /\ form[2] = [form[1] EXCEPT !.short = FALSE])
        => /\ Observed(run[1]) = Observed(run[2])
           /\ run[1].n.tag = run[2].n.tag
           /\ run[1].n.tag = "bound" => run[1].n.mut = run[2].n.mut

\* `mut n, or h, f` and `mut n = n, or h, f` on Err(1) with a value block have
\* both run to the end of the scope.
C4_Witness ==
    /\ BothOver /\ e = Err(1) /\ f.kind = "block"
    /\ form[1] = AllForms /\ form[2] = [AllForms EXCEPT !.short = FALSE]
    /\ run[1].pc = "done" /\ run[2].pc = "done"
    /\ run[1].harg = Set(1)

\* C5: a `mut` call and the call without `mut`, otherwise alike, take the
\* same branch, bind the same value, pass the handler the same argument and
\* evaluate source, handler and escape the same number of times in the same
\* order; the binding of the `mut` call, and only that one, can be assigned
\* to afterwards.
C5_MutOnlyChangesMutability ==
    /\ (/\ BothOver /\ SameOutcome
        /\ form[1].mut /\ form[2] = [form[1] EXCEPT !.mut = FALSE])
           => /\ Observed(run[1]) = Observed(run[2])
              /\ run[1].n.tag = run[2].n.tag
    /\ \A i \in Calls :
           /\ Continued(run[i]) => run[i].n.mut = form[i].mut
           /\ run[i].pc = "reassigned" => form[i].mut

\* `mut n = e, or h, f` and `n = e, or h, f` on None with a value block have
\* both run to the end; only the first binding was assigned to afterwards.
C5_Witness ==
    /\ BothOver /\ e = None /\ f.kind = "block"
    /\ form[1] = [mut |-> TRUE, short |-> FALSE, handler |-> TRUE]
    /\ form[2] = [mut |-> FALSE, short |-> FALSE, handler |-> TRUE]
    /\ run[1].pc = "done" /\ run[2].pc = "done"
    /\ run[1].n.mut /\ ~run[2].n.mut
    /\ run[1].n.val # run[1].bound.val

\* The conversion of the call's source has happened.
Converted(r) == r.res.tag \in {"Ok", "Err"}

\* C8: the built-in conversions are total and keep the payload: Some(v)
\* becomes Ok(v), None becomes Err(()), a Result is returned as it is, and
\* the outcome is always exactly one of Ok and Err.
C8_ConversionsPreservePayload ==
    \A i \in Calls :
        LET r == run[i] IN
        /\ r.pc \notin {"expand", "source", "convert", "rejected"}
               => Converted(r)
        /\ Converted(r) =>
               /\ e.tag = "Some" => r.res = [tag |-> "Ok", val |-> e.val]
               /\ e.tag = "None" => r.res = [tag |-> "Err", val |-> Unit]
               /\ e.tag = "Ok" => r.res = [tag |-> "Ok", val |-> e.val]
               /\ e.tag = "Err" => r.res = [tag |-> "Err", val |-> e.val]

\* In lib.rs None was converted to Err(()), and a call on it has left through
\* the escape expression.
C8_Witness ==
    \E i, j \in Calls :
        /\ e = None /\ rev = "lib"
        /\ run[i].pc = "match" /\ run[i].res = [tag |-> "Err", val |-> Unit]
        /\ run[j].pc = "exited"

\* C10: in every call form of both revisions the source expression is
\* evaluated once and converted once per call, before any handler call or
\* escape evaluation, and on the success path the handler is not evaluated.
C10_SourceConvertedOnceFirst ==
    \A i \in Calls :
        LET r == run[i] IN
        /\ Count(r.trace, "e") <= 1 /\ Count(r.trace, "into_result") <= 1
        /\ IsMutex(e) => r.locks = Count(r.trace, "into_result")
        /\ Len(r.trace) >= 1 => r.trace[1] = "e"
        /\ Len(r.trace) >= 2 => r.trace[2] = "into_result"
        /\ r.pc \notin {"expand", "source", "convert", "rejected"}
               => SubSeq(r.trace, 1, 2) = <<"e", "into_result">>
        /\ Succeeded(r) => r.trace = <<"e", "into_result">>

\* The call with the longest chain of rules, `mut n, or h, f`, on Ok(1) has run
\* to the end having evaluated and converted the source once.
C10_Witness ==
    \E i \in Calls :
        /\ rev = "mod" /\ form[i] = AllForms /\ e = Ok(1)
        /\ run[i].pc = "done" /\ run[i].trace = <<"e", "into_result">>

Held(r) == r.mtx.owner = "self"

\* The parts of C9 that concern the acquisition and the success path: one
\* lock() per call, its outcome known before the match, and on success the
\* guard owned by n, so that the mutex is held from the statement to the end
\* of n's scope and released there.
OneAcquisition(r) ==
    /\ r.locks <= 1
    /\ r.pc \notin {"expand", "source", "convert", "rejected"}
           => r.locks = 1 /\ Converted(r)
    /\ r.pc = "match" => Held(r) /\ r.guard = "temp"

GuardPassesToBinding(r) ==
    Succeeded(r) =>
        /\ r.pc \in {"wrap", "after", "reassigned"}
               => Held(r) /\ r.guard = "n"
        /\ r.pc = "done" => ~Held(r) /\ r.guard = "dropped"

\* C9 as stated: for a mutex source, one acquisition attempt with a definite
\* outcome before the branch; no lock held while the handler and the escape
\* expression run on the poison path; on success the guard passes to the new
\* binding and the lock is held until that binding's scope ends.
C9_AsStated ==
    \A i \in Calls :
        LET r == run[i] IN
        IsMutex(e) =>
            /\ OneAcquisition(r)
            /\ GuardPassesToBinding(r)
            /\ Failed(r) /\ r.pc \in {"in h", "in f"} => ~Held(r)

\* C9 as amended: for a mutex source, one acquisition attempt with a definite
\* outcome before the branch; on success the guard passes to the new binding
\* and the lock is held until that binding's scope ends.  On the poison path
\* the lock is held as well, the guard being inside the PoisonError: while
\* the handler runs, which receives it, and, in the forms without a handler,
\* while the escape expression runs; it is released when the handler returns
\* (unless the handler stored its argument) or when the statement ends.
C9_PoisonedGuardHeldUntilDropped ==
    \A i \in Calls :
        LET r == run[i] IN
        IsMutex(e) =>
            /\ OneAcquisition(r)
            /\ GuardPassesToBinding(r)
            /\ Failed(r) =>
                   /\ r.pc \in {"call h", "in h"} => Held(r)
                   /\ (r.pc \in {"eval f", "in f"} /\ ~form[i].handler)
                          => Held(r) /\ r.guard = "temp"
                   /\ (r.pc \in {"eval f", "in f"} /\ form[i].handler)
                          => (Held(r) <=> h = "keep")
                   /\ (BoundBy(r) \/ r.pc = "exited")
                          => (Held(r) <=> (form[i].handler /\ h = "keep"))

\* One call locked the mutex, bound the guard and released it at the end of
\* the scope; a `n, or f` call found it poisoned and evaluates the escape
\* expression with the mutex locked.
C9_Witness ==
    \E i, j \in Calls :
        /\ IsMutex(e) /\ h = "drop"
        /\ run[i].pc = "done" /\ Succeeded(run[i])
        /\ form[j] = [mut |-> FALSE, short |-> TRUE, handler |-> FALSE]
        /\ Failed(run[j]) /\ run[j].pc = "in f" /\ Held(run[j])

\* C6: when the value does not match the pattern, the result is None and
\* neither the mapping expression nor the guard is ever evaluated.
C6_NoMatchYieldsNone ==
    (im.pc # "idle" /\ ~matches(im.p, im.e)) =>
        /\ Count(im.evals, "m") = 0 /\ Count(im.evals, "c") = 0
        /\ im.pc \in {"start", "pattern", "done"}
        /\ ~im.matched
        /\ im.pc = "done" => im.result = [tag |-> "None"]

\* The documented example: (Some(1), None) against (Some(x), Some(_)) => a.
C6_Witness ==
    /\ im.pc = "done" /\ im.result = None /\ im.evals = <<"e">>
    /\ im.e = [a |-> Some(1), b |-> None]
    /\ im.p = [a |-> "Some(bind)", b |-> "Some(_)"] /\ im.m = "a"

\* The value of the guard and of the mapping for the documented expressions,
\* given the values x and y bound by the pattern.
GuardHolds(c, y) == c = "absent" \/ y # 0
Mapped(m, a, x, y) ==
    CASE m = "avg(x, y)" -> (x + y) \div 2
      [] m = "x / y" -> x \div y
      [] m = "a" -> a

\* C7: when the value matches the pattern: with a guard that is false the
\* result is None and the mapping expression is not evaluated; with no guard
\* or a true one the mapping expression is evaluated exactly once, after the
\* guard, and the result is Some of its value.
C7_MatchMapsOnceUnderGuard ==
    (im.pc # "idle" /\ matches(im.p, im.e)) =>
        LET y == IF Binds(im.p.b) THEN im.e.b.val ELSE 0
            x == IF Binds(im.p.a) THEN im.e.a.val ELSE 0
        IN  /\ ~GuardHolds(im.c, y) =>
                /\ Count(im.evals, "m") = 0
                /\ im.pc \notin {"mapping", "panicked"}
                /\ im.pc = "done" =>
                       im.result = None /\ im.evals = <<"e", "c">>
            /\ GuardHolds(im.c, y) =>
                /\ Count(im.evals, "m") <= 1
                /\ im.pc = "done" =>
                       /\ im.result = Some(Mapped(im.m, im.e.a, x, y))
                       /\ im.evals = IF im.c = "absent" THEN <<"e", "m">>
                                     ELSE <<"e", "c", "m">>

\* The documented example: (Some(2), Some(0)) against (Some(v), Some(b))
\* if b != 0 => v / b yields None, the division not evaluated.
C7_Witness ==
    /\ im.pc = "done" /\ im.result = None /\ im.evals = <<"e", "c">>
    /\ im.e = [a |-> Some(2), b |-> Some(0)]
    /\ im.p = [a |-> "Some(bind)", b |-> "Some(bind)"]
    /\ im.c = "y != 0" /\ im.m = "x / y"

====
